---- MODULE Spec2Model ----
(***************************************************************************)
(* A model of packages/builder-util-runtime/src/httpExecutor.ts: the       *)
(* redirect-following JSON request (request/doApiRequest/handleResponse),  *)
(* the streaming download (doDownload/configurePipes/DigestTransform) and  *)
(* the redirect options (prepareRedirectUrlOptions).                        *)
(*                                                                         *)
(* JavaScript strings that the code inspects (startsWith, endsWith,        *)
(* JSON.parse) are sequences of one-character strings.  An optional value  *)
(* (null / undefined / absent key) is the empty sequence None, a present   *)
(* value v is the one-element sequence Some(v).                            *)
(***************************************************************************)
EXTENDS Integers, Sequences, FiniteSets, TLC

None == <<>>
Some(v) == <<v>>
IsNull(o) == o = <<>>
Val(o) == o[1]

(* ----------------------------- bounds ---------------------------------- *)
\* transport requests one logical operation may issue against a server that
\* answers every request with a redirect
MaxRequests == 13
\* transport requests one logical operation may issue against any other server
MaxHops == 2
\* events of superseded requests (earlier hops of a redirect chain)
MaxLate == 1
\* chunks of one response body
MaxChunks == 2

(* ------------------------- program constants --------------------------- *)
\* HttpExecutor.maxRedirects
maxRedirects == 10
\* the literal of handleResponse's "redirectCount > 10"
ApiRedirectLimit == 10

(* ----------------------------- strings --------------------------------- *)
\* String.prototype.startsWith / endsWith
StartsWith(s, prefix) ==
  /\ Len(s) >= Len(prefix)
  /\ SubSeq(s, 1, Len(prefix)) = prefix
EndsWith(s, suffix) ==
  /\ Len(s) >= Len(suffix)
  /\ SubSeq(s, Len(s) - Len(suffix) + 1, Len(s)) = suffix

TokenPrefix == <<"t","o","k","e","n">>
StorageSuffix == <<".","a","m","a","z","o","n","a","w","s",".","c","o","m">>

\* Authorization header values
AuthToken == <<"t","o","k","e","n"," ","X">>
AuthBasic == <<"B","a","s","i","c"," ","X">>
AuthShort == <<"t","o","k">>
AuthValues == {AuthToken, AuthBasic, AuthShort}

\* host names
HostApi == <<"a","p","i",".","i","o">>
HostOther == <<"o",".","i","o">>
HostBucket == <<"b",".","s","3">> \o StorageSuffix
HostBare == <<"a","m","a","z","o","n","a","w","s",".","c","o","m">>
HostLookalike == <<"x">> \o HostBare
Hosts == {HostApi, HostOther, HostBucket, HostBare, HostLookalike}

(* ------------------------- header mappings ----------------------------- *)
HeaderKeys == {"authorization", "User-Agent", "Cache-Control", "Content-Type", "Content-Length"}
NoHeaders == [k \in HeaderKeys |-> None]

\* A redirect URL as the URL parsers decompose it.  A relative URL has neither
\* protocol nor host.
RedirectUrls ==
  { [protocol |-> Some("https:"), hostname |-> Some(h), port |-> None, path |-> "/r"] :
      h \in Hosts \ {HostApi} }
  \cup { [protocol |-> None, hostname |-> None, port |-> None, path |-> "/rel"] }

\* url.parse(url): a relative URL parses, with null protocol and hostname
parseUrl(url) == url
\* new URL(url): throws TypeError on a relative URL
NewURLThrows(url) == IsNull(url.hostname)
NewURLHostname(url) == Val(url.hostname)

(* --------------------------- request options --------------------------- *)
\* A RequestOptions object is a record; its headers field is None or a reference
\* into the heap of header mappings (header objects are shared by reference:
\* the spread copy {...options} copies the reference, not the mapping).
AuthBasicPrefix == <<"B","a","s","i","c">>
TokenSpace == <<"t","o","k","e","n"," ">>

\* configureRequestOptions(options, token?, method?): returns the options and
\* the heap after its in-place updates
configureRequestOptions(opts, hp, token, method, isElectron) ==
  LET o1 == IF ~IsNull(method) THEN [opts EXCEPT !.method = method] ELSE opts
      fresh == IsNull(o1.headers)
      hp1 == IF fresh THEN Append(hp, NoHeaders) ELSE hp
      ref == IF fresh THEN Len(hp1) ELSE Val(o1.headers)
      o2 == [o1 EXCEPT !.headers = Some(ref)]
      h0 == hp1[ref]
      h1 == IF ~IsNull(token)
            THEN [h0 EXCEPT !["authorization"] =
                    Some(IF StartsWith(Val(token), AuthBasicPrefix)
                         THEN Val(token) ELSE TokenSpace \o Val(token))]
            ELSE h0
      h2 == IF IsNull(h1["User-Agent"])
            THEN [h1 EXCEPT !["User-Agent"] = Some("electron-builder")] ELSE h1
      h3 == IF (IsNull(method) \/ method = Some("GET")) \/ IsNull(h2["Cache-Control"])
            THEN [h2 EXCEPT !["Cache-Control"] = Some("no-cache")] ELSE h2
      o3 == IF IsNull(o2.protocol) /\ isElectron
            THEN [o2 EXCEPT !.protocol = Some("https:")] ELSE o2
  IN [options |-> o3, heap |-> [hp1 EXCEPT ![ref] = h3]]

\* configureRequestOptionsFromUrl(url, options)
configureRequestOptionsFromUrl(url, opts, hp, isElectron) ==
  LET parsedUrl == parseUrl(url)
      o1 == [opts EXCEPT !.protocol = parsedUrl.protocol,
                         !.hostname = parsedUrl.hostname]
      o2 == IF IsNull(parsedUrl.port)
            THEN (IF ~IsNull(o1.port) THEN [o1 EXCEPT !.port = None] ELSE o1)
            ELSE [o1 EXCEPT !.port = parsedUrl.port]
      o3 == [o2 EXCEPT !.path = parsedUrl.path]
  IN configureRequestOptions(o3, hp, None, None, isElectron)

\* the host test without the dot of the suffix
IsStorageHostNoDot(hostname) == EndsWith(hostname, Tail(StorageSuffix))

\* the host test of prepareRedirectUrlOptions
IsStorageHost(hostname) == EndsWith(hostname, StorageSuffix)
\* the Authorization test of prepareRedirectUrlOptions
IsTokenAuth(headers) ==
  /\ ~IsNull(headers["authorization"])
  /\ StartsWith(Val(headers["authorization"]), TokenPrefix)

\* HttpExecutor.prepareRedirectUrlOptions(redirectUrl, options): the new options,
\* the heap afterwards, and whether new URL(redirectUrl) threw
prepareRedirectUrlOptions(redirectUrl, opts, hp, isElectron) ==
  LET c == configureRequestOptionsFromUrl(redirectUrl, opts, hp, isElectron)
      newOptions == c.options
      ref == Val(newOptions.headers)
      headers == c.heap[ref]
  IN IF IsTokenAuth(headers)
     THEN IF NewURLThrows(redirectUrl)
          THEN [threw |-> TRUE, options |-> newOptions, heap |-> c.heap]
          ELSE IF IsStorageHost(NewURLHostname(redirectUrl))
               THEN [threw |-> FALSE, options |-> newOptions,
                     heap |-> [c.heap EXCEPT ![ref]["authorization"] = None]]
               ELSE [threw |-> FALSE, options |-> newOptions, heap |-> c.heap]
     ELSE [threw |-> FALSE, options |-> newOptions, heap |-> c.heap]

(* ------------------------------ responses ------------------------------ *)
\* A raw header value of response.headers: absent (None), a single string, or
\* (Electron) a list of strings.
Single(v) == Some([isArray |-> FALSE, items |-> <<v>>])
List(vs) == Some([isArray |-> TRUE, items |-> vs])

\* safeGetHeader(response, headerKey)
safeGetHeader(response, headerKey) ==
  LET value == response.headers[headerKey]
  IN IF IsNull(value) THEN None
     ELSE IF Val(value).isArray
          THEN (IF Len(Val(value).items) = 0 THEN None
                ELSE Some(Val(value).items[Len(Val(value).items)]))
          ELSE Some(Val(value).items[1])

\* String.prototype.includes
Includes(s, sub) ==
  \E i \in 1..(Len(s) - Len(sub) + 1) : SubSeq(s, i, i + Len(sub) - 1) = sub

Json == <<"j","s","o","n">>
CtJson == <<"a","/">> \o Json
CtText == <<"t","/","p">>

(* -------------------------------- JSON --------------------------------- *)
\* JSON.parse over the texts the model's servers send: a value is the number 1,
\* the empty object, or an array of at most one value.  The result record says
\* whether the text was a value up to position next - 1.
RECURSIVE ParseValue(_, _)
ParseValue(s, i) ==
  LET fail == [ok |-> FALSE, value |-> <<>>, next |-> i]
  IN IF i > Len(s) THEN fail
     ELSE IF s[i] = "1" THEN [ok |-> TRUE, value |-> <<"number">>, next |-> i + 1]
     ELSE IF s[i] = "{"
          THEN (IF i + 1 <= Len(s) /\ s[i + 1] = "}"
                THEN [ok |-> TRUE, value |-> <<"object">>, next |-> i + 2] ELSE fail)
     ELSE IF s[i] = "["
          THEN (IF i + 1 <= Len(s) /\ s[i + 1] = "]"
                THEN [ok |-> TRUE, value |-> <<"array">>, next |-> i + 2]
                ELSE LET e == ParseValue(s, i + 1)
                     IN IF e.ok /\ e.next <= Len(s) /\ s[e.next] = "]"
                        THEN [ok |-> TRUE, value |-> <<"array", e.value>>,
                              next |-> e.next + 1]
                        ELSE fail)
     ELSE fail

\* JSON.parse(text): the parsed value, or a thrown SyntaxError
JsonParse(text) ==
  LET r == ParseValue(text, 1)
  IN IF r.ok /\ r.next = Len(text) + 1
     THEN [threw |-> FALSE, value |-> r.value]
     ELSE [threw |-> TRUE, value |-> <<>>]

\* response bodies of the JSON API, as the chunks the stream delivers
ApiBodies ==
  { <<>>, << <<"{","}">> >>, << <<"{">>, <<"}">> >>, << <<"[","1">>, <<"]">> >>,
    << <<"o","k">> >>, << <<"{">> >> }

(* ------------------------- completion values --------------------------- *)
\* What resolve, reject or the download callback is invoked with: ok says
\* success; an error carries its name, an HttpError its statusCode and
\* description as well.  A payload is tagged with what it is.
Payload(tag, v) == [tag |-> tag, v |-> v]
NoPayload == Payload("none", <<>>)
Resolved(payload) ==
  [ok |-> TRUE, name |-> "none", statusCode |-> 0, description |-> NoPayload,
   value |-> payload]
Failed(name) ==
  [ok |-> FALSE, name |-> name, statusCode |-> 0, description |-> NoPayload,
   value |-> NoPayload]

\* new HttpError(statusCode, message, description); the message embeds the
\* description, so the model keeps the description
HttpError(statusCode, description) ==
  [ok |-> FALSE, name |-> "HttpError", statusCode |-> statusCode,
   description |-> description, value |-> NoPayload]

\* createHttpError(response, description): response.statusCode || -1
createHttpError(response, description) ==
  HttpError(IF response.statusCode = 0 THEN -1 ELSE response.statusCode, description)

\* the description handleResponse builds for a 404: method and URL of the request
NotFoundDescription(opts) ==
  Payload("notfound",
          <<opts.method, IF IsNull(opts.protocol) THEN Some("https:") ELSE opts.protocol,
            opts.hostname, Some(opts.path)>>)

(* ------------------------------- digests ------------------------------- *)
\* Bytes are 0 and 1.  createHash(algorithm) is an incremental hash: update
\* folds the bytes of a chunk into the running state, the two algorithms with
\* different multipliers.
Bytes == {0, 1}
HashInit == 0
HashByte(algorithm, h, b) ==
  ((IF algorithm = "sha512" THEN 5 ELSE 3) * h + b + 1) % 31

RECURSIVE HashUpdate(_, _, _)
\* digester.update(chunk)
HashUpdate(algorithm, h, chunk) ==
  IF chunk = <<>> THEN h
  ELSE HashUpdate(algorithm, HashByte(algorithm, h, Head(chunk)), Tail(chunk))

\* digester.digest(encoding): the digest string, described by the hash it
\* encodes, its length and the characters among "+", "Z", "=" it contains
\* (a sha512 digest is 128 hex characters, or 88 base64 characters ending "==")
HashDigest(algorithm, h, encoding) ==
  [algorithm |-> algorithm, encoding |-> encoding, hash |-> h,
   length |-> IF encoding = "hex"
              THEN (IF algorithm = "sha512" THEN 128 ELSE 64)
              ELSE (IF algorithm = "sha512" THEN 88 ELSE 44),
   special |-> IF encoding = "hex" THEN {} ELSE {"="}]

RECURSIVE Flatten(_)
\* the bytes of a sequence of chunks
Flatten(chunks) ==
  IF chunks = <<>> THEN <<>> ELSE Head(chunks) \o Flatten(Tail(chunks))

\* the digest string of a whole byte sequence
DigestOf(algorithm, bytes, encoding) ==
  HashDigest(algorithm, HashUpdate(algorithm, HashInit, bytes), encoding)

\* the encoding configurePipes infers from the expected sha512 string
Sha512Encoding(sha512) ==
  IF sha512.length = 128 /\ "+" \notin sha512.special /\ "Z" \notin sha512.special
     /\ "=" \notin sha512.special
  THEN "hex" ELSE "base64"

\* new DigestTransform(expected, algorithm, encoding)
DigestTransform(expected, algorithm, encoding) ==
  [kind |-> "digest", expected |-> Some(expected), algorithm |-> algorithm,
   encoding |-> encoding, digester |-> HashInit, actual |-> None,
   isValidateOnEnd |-> TRUE]

\* a stage that is no DigestTransform: the progress stage or the file sink
Stage(kind) ==
  [kind |-> kind, expected |-> None, algorithm |-> "none", encoding |-> "none",
   digester |-> HashInit, actual |-> None, isValidateOnEnd |-> FALSE]

\* a transform that hashes its input and pushes nothing of it
TransformSwallowing(stage, chunk) ==
  IF stage.kind = "digest"
  THEN [stage |-> [stage EXCEPT !.digester = HashUpdate(stage.algorithm, @, chunk)],
        out |-> <<>>]
  ELSE [stage |-> stage, out |-> chunk]

\* a transform whose digester starts afresh with every chunk
TransformRestarting(stage, chunk) ==
  IF stage.kind = "digest"
  THEN [stage |-> [stage EXCEPT !.digester = HashUpdate(stage.algorithm, HashInit, chunk)],
        out |-> chunk]
  ELSE [stage |-> stage, out |-> chunk]

\* DigestTransform._transform(chunk): the digester is updated, the chunk passed on
Transform(stage, chunk) ==
  IF stage.kind = "digest"
  THEN [stage |-> [stage EXCEPT !.digester = HashUpdate(stage.algorithm, @, chunk)],
        out |-> chunk]
  ELSE [stage |-> stage, out |-> chunk]

\* a validate() without the test for a stream that is not finished
validateWithoutFinishedTest(stage) ==
  IF stage.actual # stage.expected THEN Some("ERR_CHECKSUM_MISMATCH")
  ELSE None

\* DigestTransform.validate(): the error it throws, if any
validate(stage) ==
  IF IsNull(stage.actual) THEN Some("ERR_STREAM_NOT_FINISHED")
  ELSE IF stage.actual # stage.expected THEN Some("ERR_CHECKSUM_MISMATCH")
  ELSE None

\* DigestTransform._flush(): the stage afterwards and the error given to the
\* stream callback, if any
Flush(stage) ==
  LET done == [stage EXCEPT !.actual =
                 Some(HashDigest(stage.algorithm, stage.digester, stage.encoding))]
  IN IF done.isValidateOnEnd
     THEN [stage |-> done, error |-> validate(done)]
     ELSE [stage |-> done, error |-> None]

\* checkSha2(sha2Header, sha2, callback): the error given to the callback, if any
\* (the function returns false exactly when there is one)
checkSha2(sha2Header, sha2) ==
  IF ~IsNull(sha2Header) /\ ~IsNull(sha2)
  THEN IF IsNull(sha2Header) THEN Some("Sha2HeaderMissing")
       ELSE IF sha2Header # sha2 THEN Some("Sha2HeaderMismatch")
       ELSE None
  ELSE None

\* the stages with the sha256 digest preferred to the sha512 one
BuildStreamsSha2First(dlOpts, response) ==
  LET progress ==
        IF dlOpts.onProgress /\ ~IsNull(safeGetHeader(response, "content-length"))
        THEN <<Stage("progress")>> ELSE <<>>
      digest ==
        IF ~IsNull(dlOpts.sha2)
        THEN <<DigestTransform(Val(dlOpts.sha2), "sha256", "hex")>>
        ELSE IF ~IsNull(dlOpts.sha512)
             THEN <<DigestTransform(Val(dlOpts.sha512), "sha512",
                                    Sha512Encoding(Val(dlOpts.sha512)))>>
             ELSE <<>>
  IN progress \o digest \o <<Stage("file")>>

\* the stages configurePipes builds, in order, the file sink last
BuildStreams(dlOpts, response) ==
  LET progress ==
        IF dlOpts.onProgress /\ ~IsNull(safeGetHeader(response, "content-length"))
        THEN <<Stage("progress")>> ELSE <<>>
      digest ==
        IF ~IsNull(dlOpts.sha512)
        THEN <<DigestTransform(Val(dlOpts.sha512), "sha512",
                               Sha512Encoding(Val(dlOpts.sha512)))>>
        ELSE IF ~IsNull(dlOpts.sha2)
             THEN <<DigestTransform(Val(dlOpts.sha2), "sha256", "hex")>>
             ELSE <<>>
  IN progress \o digest \o <<Stage("file")>>

(* ------------------------------ the servers ---------------------------- *)
RespHeaderKeys ==
  {"location", "content-type", "content-length", "X-Checksum-Sha2"}
NoRespHeaders == [k \in RespHeaderKeys |-> None]

UrlTo(h) == [protocol |-> Some("https:"), hostname |-> Some(h), port |-> None, path |-> "/r"]
RelativeUrl == [protocol |-> None, hostname |-> None, port |-> None, path |-> "/rel"]
\* the Location headers of a server that does not always redirect
LocationValues ==
  { None, Single(RelativeUrl), List(<<>>), List(<<UrlTo(HostOther), UrlTo(HostBucket)>>) }

\* expected digests of the body <<0, 1>>, and a sha256 string of another body
ExpectedSha512 == { DigestOf("sha512", <<0, 1>>, "base64") }
ExpectedSha2 == DigestOf("sha256", <<0, 1>>, "hex")
OtherSha2 == DigestOf("sha256", <<1>>, "hex")

DownloadOptionsSet ==
  [sha2 : {None, Some(ExpectedSha2)},
   sha512 : {None} \cup { Some(d) : d \in ExpectedSha512 },
   onProgress : BOOLEAN]

\* a server that answers every request with a redirect (status < 400, Location)
RedirectorResponses ==
  { [statusCode |-> 302, headers |-> [NoRespHeaders EXCEPT !["location"] = Single(u)]] :
      u \in RedirectUrls }

ApiResponses ==
  { [statusCode |-> st,
     headers |-> [NoRespHeaders EXCEPT !["location"] = loc, !["content-type"] = ct]] :
      st \in {200, 204, 302, 404, 500}, loc \in LocationValues,
      ct \in {None, Single(CtJson), Single(CtText)} }

Sha2HeaderValues ==
  { [NoRespHeaders EXCEPT !["X-Checksum-Sha2"] = v] :
      v \in {None, Single(ExpectedSha2), Single(OtherSha2)} }

DownloadResponses ==
  { [statusCode |-> st,
     headers |-> [h EXCEPT !["location"] = loc, !["content-length"] = cl]] :
      st \in {200, 302, 404, 500}, loc \in LocationValues,
      cl \in {None, Single("4")}, h \in Sha2HeaderValues }

\* download bodies: the contents a server sends, in every split into at most
\* MaxChunks chunks (none of them empty)
DlContents == { <<>>, <<1>>, <<0, 1>>, <<1, 1, 0>> }
DlChunks ==
  UNION { { SubSeq(c, i, j) : i \in 1..Len(c), j \in 1..Len(c) } : c \in DlContents }
    \ { <<>> }
DlBodies ==
  { b \in UNION { [1..n -> DlChunks] : n \in 0..MaxChunks } : Flatten(b) \in DlContents }

(* -------------------------------- state -------------------------------- *)
VARIABLES
  op,              \* "api": request(); "download": doDownload(); "digest"
  server,          \* "redirector": every response redirects; "any"
  electron,        \* process.versions.electron != null
  dlOptions,       \* the DownloadOptions
  heap,            \* the header mappings, by reference
  options,         \* the RequestOptions of the latest transport request
  prior,           \* the headers of the previous request as it was issued
  redirectCount,   \* the redirectCount parameter of the latest call frame
  requests,        \* transport requests issued so far
  followed,        \* redirects followed so far
  registered,      \* the requests whose abort was given to onCancel
  phase,           \* "idle", "waiting", "body", "pipes", "ended", "done", "threw"
  conn,            \* the latest request: "live", "aborted" (abort()), "failed"
  late,            \* events of superseded requests so far
  cancelled,       \* cancellationToken.cancelled
  nOk,             \* invocations of resolve, or of the callback without error
  nFail,           \* invocations of reject, or of the callback with an error
  lastCall,        \* the latest of them
  response,        \* the latest response handleResponse was given
  sha2Header,      \* the X-Checksum-Sha2 header configurePipes read
  pending,         \* chunks of the response body not yet delivered
  data,            \* handleResponse's accumulated text
  streams,         \* configurePipes' stages, the file sink last
  piped,           \* the chain response -> stages is intact
  sink,            \* fileOut: "none", "open", "ending", "closing", "closed", ...
  sinkCloses,      \* calls of fileOut.close
  written,         \* bytes written to fileOut
  fed,             \* chunks given to the first stage so far
  emitted,         \* chunks pushed by the last transform stage so far
  digests,         \* calls of digester.digest
  thrown           \* what the latest direct call of validate() threw

vars ==
  <<op, server, electron, dlOptions, heap, options, prior, redirectCount, requests,
    followed, registered, phase, conn, late, cancelled, nOk, nFail, lastCall, response,
    sha2Header, pending, data, streams, piped, sink, sinkCloses,
    written, fed, emitted, digests, thrown>>

setupVars == <<op, server, electron, dlOptions>>
callVars == <<nOk, nFail, lastCall>>
hopVars == <<heap, options, prior, redirectCount, requests, followed, registered>>
pipeVars == <<sha2Header, streams, piped, sink, sinkCloses, written>>
chunkVars == <<fed, emitted, digests, thrown>>

NoDownloadOptions == [sha2 |-> None, sha512 |-> None, onProgress |-> FALSE]
NoResponse == [statusCode |-> 0, headers |-> NoRespHeaders]

\* the state before the operation starts, for an operation, a server and the
\* Authorization values a caller may have configured
InitWith(ops, servers, auths, electrons) ==
  /\ op \in ops
  /\ server \in servers
  /\ electron \in electrons
  /\ dlOptions \in (IF op = "download" THEN DownloadOptionsSet ELSE {NoDownloadOptions})
  /\ \E auth \in auths,
        noHeaders \in (IF op = "api" THEN BOOLEAN ELSE {FALSE}),
        gzip \in (IF op = "api" THEN BOOLEAN ELSE {FALSE}) :
       /\ noHeaders => IsNull(auth)
       /\ heap = IF noHeaders THEN <<>>
                 ELSE << [NoHeaders EXCEPT !["authorization"] = auth] >>
       /\ options = [protocol |-> Some("https:"), hostname |-> Some(HostApi),
                     port |-> Some("8443"), path |-> "/a", method |-> None,
                     headers |-> IF noHeaders THEN None ELSE Some(1),
                     gzip |-> gzip]
  /\ prior = None
  /\ redirectCount = 0
  /\ requests = 0
  /\ followed = 0
  /\ registered = {}
  /\ phase = "idle"
  /\ conn = "live"
  /\ late = 0
  /\ cancelled = FALSE
  /\ nOk = 0
  /\ nFail = 0
  /\ lastCall = None
  /\ response = NoResponse
  /\ sha2Header = None
  /\ pending = <<>>
  /\ data = <<>>
  /\ streams = <<>>
  /\ piped = FALSE
  /\ sink = "none"
  /\ sinkCloses = 0
  /\ written = <<>>
  /\ fed = <<>>
  /\ emitted = <<>>
  /\ digests = 0
  /\ thrown = None

(* ------------------------------ completion ----------------------------- *)
\* resolve(v), reject(e) or callback(e): the invocation is counted and recorded
Complete(c) ==
  /\ nOk' = IF c.ok THEN nOk + 1 ELSE nOk
  /\ nFail' = IF c.ok THEN nFail ELSE nFail + 1
  /\ lastCall' = Some(c)

nCalls == nOk + nFail

\* the bound on the transport requests of one operation
RequestLimit == IF server = "redirector" THEN MaxRequests ELSE MaxHops

\* the responses the server may give
Responses ==
  IF server = "redirector" THEN RedirectorResponses
  ELSE IF op = "api" THEN ApiResponses ELSE DownloadResponses
Bodies == IF op = "api" THEN ApiBodies ELSE DlBodies

\* a request issued without onCancel(() => request.abort())
IssueRequestWithoutOnCancel ==
  /\ requests' = requests + 1
  /\ registered' = registered
  /\ phase' = "waiting"
  /\ conn' = "live"

\* this.doRequest(options, ...) and the wiring after it: a request is in flight,
\* with error, aborted and timeout listeners and its abort registered for
\* cancellation
IssueRequest ==
  /\ requests' = requests + 1
  /\ registered' = registered \cup {requests + 1}
  /\ phase' = "waiting"
  /\ conn' = "live"

\* the header mapping of the request as it is issued now
Snapshot == heap[Val(options.headers)]

(* ------------------------------- request() ----------------------------- *)
\* request(options, cancellationToken, data): configureRequestOptions, the POST
\* fields when data is given, then doApiRequest with redirectCount 0
Request(withData) ==
  /\ op = "api" /\ phase = "idle"
  /\ LET c == configureRequestOptions(options, heap, None, None, electron)
         ref == Val(c.options.headers)
     IN IF withData
        THEN /\ options' = [c.options EXCEPT !.method = Some("post")]
             /\ heap' = [c.heap EXCEPT ![ref]["Content-Type"] = Some("application/json"),
                                       ![ref]["Content-Length"] = Some("2")]
        ELSE /\ options' = c.options
             /\ heap' = c.heap
  /\ redirectCount' = 0
  /\ IssueRequest
  /\ UNCHANGED <<setupVars, chunkVars, callVars, prior, followed, late, cancelled, response,
                 pending, data, pipeVars>>

\* the classification with the Location header tested before the status
ClassifyRedirectFirst(resp, count) ==
  IF ~IsNull(safeGetHeader(resp, "location"))
  THEN (IF count > ApiRedirectLimit THEN "tooManyRedirects" ELSE "redirect")
  ELSE IF resp.statusCode = 404 THEN "notFound"
  ELSE IF resp.statusCode = 204 THEN "noContent"
  ELSE "body"

\* the classification without the 204 case
ClassifyWithoutNoContent(resp, count) ==
  IF resp.statusCode = 404 THEN "notFound"
  ELSE IF ~IsNull(safeGetHeader(resp, "location"))
       THEN (IF count > ApiRedirectLimit THEN "tooManyRedirects" ELSE "redirect")
       ELSE "body"

\* the classification of handleResponse, first match first: 404, 204, a
\* Location header (with the redirectCount test), otherwise the body is read
ClassifyResponse(resp, count) ==
  IF resp.statusCode = 404 THEN "notFound"
  ELSE IF resp.statusCode = 204 THEN "noContent"
  ELSE IF ~IsNull(safeGetHeader(resp, "location"))
       THEN (IF count > ApiRedirectLimit THEN "tooManyRedirects" ELSE "redirect")
       ELSE "body"

\* handleResponse(response, ...), called from the response callback of
\* doApiRequest inside try/catch
ApiResponse(resp) ==
  /\ op = "api" /\ phase = "waiting" /\ conn = "live"
  /\ response' = resp
  /\ LET redirectUrl == safeGetHeader(resp, "location")
         class == ClassifyResponse(resp, redirectCount)
     IN IF class = "notFound"
        THEN /\ Complete(createHttpError(resp, NotFoundDescription(options)))
             /\ phase' = "done"
             /\ UNCHANGED <<hopVars, conn, late, pending, data>>
        ELSE IF class = "noContent"
        THEN \* resolve(), without a value
             /\ Complete(Resolved(Payload("undefined", <<>>)))
             /\ phase' = "done"
             /\ UNCHANGED <<hopVars, conn, late, pending, data>>
        ELSE IF class = "tooManyRedirects"
        THEN /\ Complete(Failed("TooManyRedirects"))
             /\ phase' = "done"
             /\ UNCHANGED <<hopVars, conn, late, pending, data>>
        ELSE IF class = "redirect"
        THEN      LET r == prepareRedirectUrlOptions(Val(redirectUrl), options, heap,
                                                     electron)
                  IN IF r.threw
                     THEN \* caught by the try/catch around handleResponse
                          /\ Complete(Failed("TypeError"))
                          /\ heap' = r.heap
                          /\ phase' = "done"
                          /\ UNCHANGED <<options, prior, redirectCount, requests,
                                         followed, registered, conn, late, pending,
                                         data>>
                     ELSE \* doApiRequest(newOptions, ..., redirectCount)
                          /\ requests < RequestLimit
                          /\ prior' = Some(Snapshot)
                          /\ options' = r.options
                          /\ heap' = r.heap
                          /\ redirectCount' = redirectCount
                          /\ followed' = followed + 1
                          /\ IssueRequest
                          /\ UNCHANGED <<callVars, late, pending, data>>
        ELSE \* the body is read: data and end listeners
             /\ phase' = "body"
             /\ pending' \in Bodies
             /\ data' = <<>>
             /\ UNCHANGED <<hopVars, conn, late, callVars>>
  /\ UNCHANGED <<setupVars, chunkVars, cancelled, pipeVars>>

\* stream.on("data", chunk => data += chunk)
ApiData ==
  /\ op = "api" /\ phase = "body" /\ conn = "live"
  /\ pending # <<>>
  /\ data' = data \o Head(pending)
  /\ pending' = Tail(pending)
  /\ UNCHANGED <<setupVars, chunkVars, hopVars, phase, conn, late, cancelled, callVars, response,
                 pipeVars>>

\* the content-type test as an exact comparison
IsJsonContentTypeExact(contentType) ==
  ~IsNull(contentType) /\ Val(contentType) = Json

\* the content-type test of the end listener
IsJsonContentType(contentType) ==
  ~IsNull(contentType) /\ Includes(Val(contentType), Json)

\* stream.on("end", ...)
ApiEnd ==
  /\ op = "api" /\ phase = "body" /\ conn = "live"
  /\ pending = <<>>
  /\ IF response.statusCode >= 400
     THEN LET contentType == safeGetHeader(response, "content-type")
              isJson == IsJsonContentType(contentType)
              parsed == JsonParse(data)
          IN IF isJson
             THEN IF parsed.threw
                  THEN Complete(Failed("SyntaxError"))
                  ELSE Complete(createHttpError(response, Payload("json", parsed.value)))
             ELSE Complete(createHttpError(response, Payload("text", data)))
     ELSE Complete(Resolved(IF Len(data) = 0 THEN Payload("null", <<>>)
                            ELSE Payload("text", data)))
  /\ phase' = "ended"
  /\ UNCHANGED <<setupVars, chunkVars, hopVars, conn, late, cancelled, response, pending, data,
                 pipeVars>>

\* gUnzip.on("error", reject): the gunzip stage of a gzip request fails
GunzipError ==
  /\ op = "api" /\ phase = "body" /\ options.gzip
  /\ Complete(Failed("GunzipError"))
  /\ phase' = "done"
  /\ UNCHANGED <<setupVars, chunkVars, hopVars, conn, late, cancelled, response, pending, data,
                 pipeVars>>

(* ------------------------------ doDownload ----------------------------- *)
\* the argument expression redirectCount++: the value passed is the old one,
\* the caller's own variable is incremented afterwards
PostIncrement(count) == [passed |-> count, local |-> count + 1]

\* doDownload(requestOptions, destination, 0, options, callback, onCancel)
StartDownload ==
  /\ op = "download" /\ phase = "idle"
  /\ redirectCount' = 0
  /\ IssueRequest
  /\ UNCHANGED <<setupVars, chunkVars, callVars, heap, options, prior, followed, late, cancelled,
                 response, pending, data, pipeVars>>

\* the response callback of doDownload, configurePipes included
DownloadResponse(resp) ==
  /\ op = "download" /\ phase = "waiting" /\ conn = "live"
  /\ LET redirectUrl == safeGetHeader(resp, "location")
     IN IF resp.statusCode >= 400
        THEN /\ Complete(Failed("CannotDownload"))
             /\ phase' = "done"
             /\ UNCHANGED <<hopVars, conn, late, pending, pipeVars>>
        ELSE IF ~IsNull(redirectUrl)
        THEN IF redirectCount < maxRedirects
             THEN LET r == prepareRedirectUrlOptions(Val(redirectUrl), options, heap,
                                                     electron)
                  IN IF r.threw
                     THEN \* nothing catches it: the callback is not invoked
                          /\ heap' = r.heap
                          /\ phase' = "threw"
                          /\ UNCHANGED <<options, prior, redirectCount, requests,
                                         followed, registered, conn, late, callVars,
                                         pending, pipeVars>>
                     ELSE \* doDownload(newOptions, destination, redirectCount++, ...)
                          /\ requests < RequestLimit
                          /\ prior' = Some(Snapshot)
                          /\ options' = r.options
                          /\ heap' = r.heap
                          /\ redirectCount' = PostIncrement(redirectCount).passed
                          /\ followed' = followed + 1
                          /\ IssueRequest
                          /\ UNCHANGED <<callVars, late, pending, pipeVars>>
             ELSE /\ Complete(Failed("TooManyRedirects"))
                  /\ phase' = "done"
                  /\ UNCHANGED <<hopVars, conn, late, pending, pipeVars>>
        ELSE \* configurePipes(options, response, destination, callback, token)
             LET header == safeGetHeader(resp, "X-Checksum-Sha2")
                 error == checkSha2(header, dlOptions.sha2)
             IN IF ~IsNull(error)
                THEN /\ Complete(Failed(Val(error)))
                     /\ sha2Header' = header
                     /\ phase' = "done"
                     /\ UNCHANGED <<hopVars, conn, late, pending, streams, piped,
                                    sink, sinkCloses, written>>
                ELSE /\ sha2Header' = header
                     /\ streams' = BuildStreams(dlOptions, resp)
                     /\ piped' = TRUE
                     /\ sink' = "open"
                     /\ phase' = "pipes"
                     /\ pending' \in Bodies
                     /\ UNCHANGED <<hopVars, conn, late, callVars, sinkCloses, written>>
  /\ UNCHANGED <<setupVars, chunkVars, cancelled, response, data>>

\* the stages after a chunk went through them (Transform of each, in order)
PassChunk(stages, chunk) ==
  [i \in 1..Len(stages) |-> Transform(stages[i], chunk).stage]

RECURSIVE ChainOut(_, _)
\* what the last of the stages pushes when the chunk is written to the first:
\* each stage is given what the stage before it pushed
ChainOut(stages, chunk) ==
  IF stages = <<>> THEN chunk
  ELSE ChainOut(Tail(stages), Transform(Head(stages), chunk).out)

\* the transform stages of the chain: all but the file sink
Transforms(stages) == SubSeq(stages, 1, Len(stages) - 1)

\* a chunk of the response goes down the chain and is written to the file sink
DownloadData ==
  /\ op = "download" /\ phase = "pipes" /\ conn = "live"
  /\ piped /\ sink = "open"
  /\ pending # <<>>
  /\ LET out == ChainOut(Transforms(streams), Head(pending))
     IN /\ streams' = PassChunk(streams, Head(pending))
        /\ fed' = Append(fed, Head(pending))
        /\ emitted' = Append(emitted, out)
        /\ written' = written \o out
  /\ pending' = Tail(pending)
  /\ UNCHANGED <<setupVars, digests, thrown, sha2Header, hopVars, phase, conn, late,
                 cancelled, callVars, response, data, piped, sink, sinkCloses>>

\* the index of the DigestTransform among the stages, 0 when there is none
DigestIndex(stages) ==
  IF \E i \in 1..Len(stages) : stages[i].kind = "digest"
  THEN CHOOSE i \in 1..Len(stages) : stages[i].kind = "digest"
  ELSE 0

\* stream.on("error", error => { if (!cancellationToken.cancelled) callback(error) })
OnStageError(name) ==
  IF ~cancelled
  THEN Complete(Failed(name))
  ELSE UNCHANGED callVars

\* the response ends: each stage is ended in turn.  The DigestTransform is
\* flushed; if its flush fails it emits error and never ends, so the file sink
\* is not ended; otherwise fileOut.end() is called
DownloadEnd ==
  /\ op = "download" /\ phase = "pipes" /\ conn = "live"
  /\ piped /\ sink = "open"
  /\ pending = <<>>
  /\ LET d == DigestIndex(streams)
         f == IF d = 0 THEN [stage |-> Stage("none"), error |-> None]
              ELSE Flush(streams[d])
     IN /\ streams' = IF d = 0 THEN streams ELSE [streams EXCEPT ![d] = f.stage]
        /\ digests' = IF d = 0 THEN digests ELSE digests + 1
        /\ IF ~IsNull(f.error)
           THEN /\ OnStageError(Val(f.error))
                /\ piped' = FALSE
                /\ sink' = sink
           ELSE /\ sink' = "ending"
                /\ UNCHANGED <<callVars, piped>>
  /\ UNCHANGED <<setupVars, fed, emitted, thrown, sha2Header, hopVars, phase, conn, late,
                 cancelled, response, pending, data, sinkCloses, written>>

\* the progress stage emits error: the response is unpiped from it, the stages
\* after it are neither ended nor closed
ProgressError ==
  /\ op = "download" /\ phase = "pipes"
  /\ piped /\ sink = "open"
  /\ \E i \in 1..Len(streams) : streams[i].kind = "progress"
  /\ OnStageError("ProgressError")
  /\ piped' = FALSE
  /\ UNCHANGED <<setupVars, chunkVars, sha2Header, hopVars, phase, conn, late, cancelled, response, pending,
                 data, streams, sink, sinkCloses, written>>

\* the file sink emits error (a failed write): the stream destroys itself
FileError ==
  /\ op = "download" /\ phase = "pipes"
  /\ sink \in {"open", "ending"}
  /\ OnStageError("FileError")
  /\ piped' = FALSE
  /\ sink' = "destroyed"
  /\ UNCHANGED <<setupVars, chunkVars, sha2Header, hopVars, phase, conn, late, cancelled, response, pending,
                 data, streams, sinkCloses, written>>

\* after the file sink failed it is unpiped from the stage before it, but the
\* response stays piped into the transform stages and the request is not
\* aborted: a further chunk is taken from the response by those stages, and
\* stays in their buffers
DownloadDrain ==
  /\ op = "download" /\ phase = "pipes" /\ conn = "live"
  /\ sink = "destroyed" /\ Len(streams) > 1
  /\ pending # <<>>
  /\ streams' = PassChunk(streams, Head(pending))
  /\ fed' = Append(fed, Head(pending))
  /\ emitted' = Append(emitted, ChainOut(Transforms(streams), Head(pending)))
  /\ pending' = Tail(pending)
  /\ UNCHANGED <<setupVars, digests, thrown, sha2Header, hopVars, phase, conn, late,
                 cancelled, callVars, response, data, piped, sink, sinkCloses, written>>

\* fileOut.on("finish", () => fileOut.close(callback))
SinkFinish ==
  /\ op = "download" /\ sink = "ending"
  /\ sink' = "closing"
  /\ sinkCloses' = sinkCloses + 1
  /\ UNCHANGED <<setupVars, chunkVars, sha2Header, hopVars, phase, conn, late, cancelled, callVars, response,
                 pending, data, streams, piped, written>>

\* a close operation whose failure is not given to the callback
SinkClosedIgnoringFailure(failed) ==
  /\ op = "download" /\ sink = "closing"
  /\ Complete(Resolved(Payload("null", <<>>)))
  /\ sink' = IF failed THEN "closeFailed" ELSE "closed"
  /\ phase' = "done"
  /\ UNCHANGED <<setupVars, chunkVars, sha2Header, hopVars, conn, late, cancelled, response,
                 pending, data, streams, piped, sinkCloses, written>>

\* the close operation completes and invokes callback with its error or null
SinkClosed(failed) ==
  /\ op = "download" /\ sink = "closing"
  /\ Complete(IF failed THEN Failed("CloseError") ELSE Resolved(Payload("null", <<>>)))
  /\ sink' = IF failed THEN "closeFailed" ELSE "closed"
  /\ phase' = "done"
  /\ UNCHANGED <<setupVars, chunkVars, sha2Header, hopVars, conn, late, cancelled, response, pending, data,
                 streams, piped, sinkCloses, written>>

(* --------------------------- DigestTransform --------------------------- *)
DigestAlgorithms == {"sha256", "sha512"}
DigestEncodings == {"hex", "base64"}

\* a DigestTransform on its own: any algorithm and encoding, expecting the
\* digest of one of the contents in one of the encodings, isValidateOnEnd left
\* at its default or set to false, and the chunks that will be written to it
InitDigest ==
  /\ op = "digest"
  /\ server = "any"
  /\ electron = FALSE
  /\ dlOptions = NoDownloadOptions
  /\ heap = <<>>
  /\ options = [protocol |-> None, hostname |-> None, port |-> None, path |-> "/",
                method |-> None, headers |-> None, gzip |-> FALSE]
  /\ prior = None
  /\ redirectCount = 0
  /\ requests = 0
  /\ followed = 0
  /\ registered = {}
  /\ phase = "idle"
  /\ conn = "live"
  /\ late = 0
  /\ cancelled = FALSE
  /\ nOk = 0
  /\ nFail = 0
  /\ lastCall = None
  /\ response = NoResponse
  /\ sha2Header = None
  /\ pending \in DlBodies
  /\ data = <<>>
  /\ \E algorithm \in DigestAlgorithms, encoding \in DigestEncodings,
        content \in DlContents, expectedEncoding \in DigestEncodings,
        isValidateOnEnd \in BOOLEAN :
       streams = << [DigestTransform(DigestOf(algorithm, content, expectedEncoding),
                                     algorithm, encoding)
                       EXCEPT !.isValidateOnEnd = isValidateOnEnd] >>
  /\ piped = FALSE
  /\ sink = "none"
  /\ sinkCloses = 0
  /\ written = <<>>
  /\ fed = <<>>
  /\ emitted = <<>>
  /\ digests = 0
  /\ thrown = None

\* transform.write(chunk): _transform(chunk, encoding, callback)
DigestWrite ==
  /\ op = "digest" /\ phase = "idle"
  /\ pending # <<>>
  /\ LET t == Transform(streams[1], Head(pending))
     IN /\ streams' = <<t.stage>>
        /\ fed' = Append(fed, Head(pending))
        /\ emitted' = Append(emitted, t.out)
  /\ pending' = Tail(pending)
  /\ UNCHANGED <<setupVars, hopVars, phase, conn, late, cancelled, callVars, response,
                 sha2Header, data, piped, sink, sinkCloses, written, digests, thrown>>

\* transform.end(): _flush(callback), once; callback(e) or callback(null)
DigestEnd ==
  /\ op = "digest" /\ phase = "idle"
  /\ pending = <<>>
  /\ LET f == Flush(streams[1])
     IN /\ streams' = <<f.stage>>
        /\ digests' = digests + 1
        /\ Complete(IF IsNull(f.error) THEN Resolved(Payload("null", <<>>))
                    ELSE Failed(Val(f.error)))
  /\ phase' = "ended"
  /\ UNCHANGED <<setupVars, hopVars, conn, late, cancelled, response, sha2Header, pending,
                 data, piped, sink, sinkCloses, written, fed, emitted, thrown>>

\* a caller invokes validate(), at any time
Validate ==
  /\ op = "digest"
  /\ thrown' = Some(validate(streams[1]))
  /\ UNCHANGED <<setupVars, hopVars, phase, conn, late, cancelled, callVars, response,
                 pending, data, pipeVars, fed, emitted, digests>>

(* --------------------------- transport events -------------------------- *)
InFlight == phase \in {"waiting", "body", "pipes", "ended", "done", "threw"}

\* request.on("socket", socket => socket.setTimeout(60 * 1000, ...)): the
\* socket of the latest request has been idle for 60 seconds:
\* callback(new Error("Request timed out")), then request.abort()
Timeout ==
  /\ InFlight /\ conn = "live"
  /\ Complete(Failed("TimedOut"))
  /\ conn' = "aborted"
  /\ UNCHANGED <<setupVars, chunkVars, hopVars, phase, late, cancelled, response, pending, data,
                 pipeVars>>

\* request.on("error", reject) / request.on("aborted", ...): the latest request
\* emits error (also after abort(): the socket hangs up) or aborted
TransportEvent(name) ==
  /\ InFlight /\ conn # "failed"
  /\ Complete(Failed(name))
  /\ conn' = "failed"
  /\ UNCHANGED <<setupVars, chunkVars, hopVars, phase, late, cancelled, response, pending, data,
                 pipeVars>>

\* a listener of an earlier request of the chain fires: its error, aborted and
\* timeout listeners stay registered with the same reject / callback
LateEvent(name) ==
  /\ requests > 1
  /\ late < MaxLate
  /\ late' = late + 1
  /\ Complete(Failed(name))
  /\ UNCHANGED <<setupVars, chunkVars, hopVars, phase, conn, cancelled, response, pending,
                 data, pipeVars>>

\* the cancellation token is signaled: the abort registered by the latest
\* request, if it registered one, is called
Cancel ==
  /\ InFlight /\ ~cancelled
  /\ cancelled' = TRUE
  /\ conn' = IF conn = "live" /\ requests \in registered THEN "aborted" ELSE conn
  /\ UNCHANGED <<setupVars, chunkVars, hopVars, phase, late, callVars, response, pending, data,
                 pipeVars>>

(* ---------------------------- specifications --------------------------- *)
AllAuth == {None} \cup { Some(a) : a \in AuthValues }

\* the events of the transport and of the cancellation token
Environment ==
  \/ Timeout
  \/ \E name \in {"TransportError", "AbortedByServer"} : TransportEvent(name)
  \/ \E name \in {"TransportError", "TimedOut"} : LateEvent(name)
  \/ Cancel

\* request() against any server
NextRequest ==
  \/ \E withData \in BOOLEAN : Request(withData)
  \/ \E resp \in Responses : ApiResponse(resp)
  \/ ApiData
  \/ ApiEnd
  \/ GunzipError
  \/ Environment

SpecRequest ==
  InitWith({"api"}, {"any"}, {Some(AuthToken)}, {FALSE}) /\ [][NextRequest]_vars

\* a download against any server
NextDownload ==
  \/ StartDownload
  \/ \E resp \in Responses : DownloadResponse(resp)
  \/ DownloadData
  \/ DownloadEnd
  \/ ProgressError
  \/ FileError
  \/ DownloadDrain
  \/ SinkFinish
  \/ \E failed \in BOOLEAN : SinkClosed(failed)
  \/ Environment

SpecDownload ==
  InitWith({"download"}, {"any"}, {Some(AuthToken)}, {FALSE}) /\ [][NextDownload]_vars

\* either operation against a server that answers every request with a
\* redirect, on a transport without failures
NextRedirects ==
  \/ \E withData \in BOOLEAN : Request(withData)
  \/ \E resp \in Responses : ApiResponse(resp)
  \/ StartDownload
  \/ \E resp \in Responses : DownloadResponse(resp)
  \/ Cancel

SpecRedirects ==
  InitWith({"api", "download"}, {"redirector"}, AllAuth, BOOLEAN) /\ [][NextRedirects]_vars

\* a DigestTransform driven directly
NextDigest ==
  \/ DigestWrite
  \/ DigestEnd
  \/ Validate

SpecDigest == InitDigest /\ [][NextDigest]_vars

(* ------------------------------- claims -------------------------------- *)

\* C1: a download started with hop counter 0 against a server that answers
\* every request with a redirect issues at most maxRedirects + 1 = 11 transport
\* requests, and reports "Too many redirects" only at the 11th.
C1_DownloadRedirectBound ==
  op = "download" =>
    /\ requests <= maxRedirects + 1
    /\ (~IsNull(lastCall) /\ Val(lastCall).name = "TooManyRedirects"
          => requests = maxRedirects + 1)

\* C2: in request(), the hop counter of the latest call equals the number of
\* redirects followed so far (each followed redirect adds one, nothing resets
\* it), so that at most 12 transport requests are issued before the counter
\* exceeds 10.
C2_RequestRedirectBound ==
  op = "api" =>
    /\ redirectCount = followed
    /\ requests <= ApiRedirectLimit + 2

\* C3: after a redirect, when the previous request carried an Authorization
\* value starting with "token", the reissued request carries no Authorization
\* header if the target host name ends in ".amazonaws.com" and the same value
\* otherwise; so no reissued request to such a host carries a token value.
C3_RedirectCredentialSafety ==
  requests > 1 =>
    LET before == Val(prior)["authorization"]
        after == heap[Val(options.headers)]["authorization"]
        storage == /\ ~IsNull(options.hostname)
                   /\ EndsWith(Val(options.hostname), StorageSuffix)
    IN /\ (~IsNull(before) /\ StartsWith(Val(before), TokenPrefix))
            => IF storage THEN IsNull(after) ELSE after = before
       /\ storage => ~(~IsNull(after) /\ StartsWith(Val(after), TokenPrefix))

\* a token-carrying request was redirected to a storage host, and the reissued
\* request carries no Authorization header
C3_Witness ==
  /\ requests > 1
  /\ Val(prior)["authorization"] = Some(AuthToken)
  /\ options.hostname = Some(HostBucket)
  /\ IsNull(heap[Val(options.headers)]["authorization"])

\* C4: the completion callback of a download is invoked at most once, and
\* never both with an error and with success.
C4_SingleResolution ==
  op = "download" => nCalls <= 1 /\ ~(nOk >= 1 /\ nFail >= 1)

\* C5: once the cancellation token is signaled, the completion callback of a
\* download is not invoked any more, neither with an error nor with success.
C5_CancellationWins ==
  [][(op = "download" /\ cancelled) => UNCHANGED <<nOk, nFail, lastCall>>]_vars

\* the DigestTransform of the chain was flushed and its digest is not the
\* expected one
DigestMismatch ==
  \E i \in 1..Len(streams) :
    /\ streams[i].kind = "digest"
    /\ ~IsNull(streams[i].actual)
    /\ streams[i].actual # streams[i].expected

\* no event of the stage chain or of the file sink is pending
PipelineQuiesced ==
  ~ENABLED (DownloadData \/ DownloadEnd \/ SinkFinish \/ \E failed \in BOOLEAN : SinkClosed(failed))

\* C6: when the body of a download that is not cancelled does not hash to the
\* expected digest and the pipeline has quiesced, the callback has been invoked
\* with an error and the file sink was closed exactly once.
C6_MismatchClosesSink ==
  (op = "download" /\ DigestMismatch /\ ~cancelled /\ PipelineQuiesced)
    => (nFail >= 1 /\ sinkCloses = 1 /\ sink = "closed")

\* C7: when a sha2 value is expected, the file sink is created (and the stage
\* chain built) only if the X-Checksum-Sha2 header of the response equals it; a
\* missing or different header leaves no sink and no byte written.
C7_Sha2HeaderPrecheck ==
  (op = "download" /\ ~IsNull(dlOptions.sha2) /\ sha2Header # dlOptions.sha2)
    => (sink = "none" /\ written = <<>>)

\* handleResponse is given a response of this status in this step
HandlesStatus(status) ==
  /\ op = "api" /\ phase = "waiting"
  /\ phase' # "waiting" \/ requests' = requests + 1
  /\ response'.statusCode = status

\* C8: every 404 response, whatever its headers, makes request() reject at
\* once with an HttpError of status 404 whose description embeds the method and
\* the path of the request; no body reader is attached and no further request
\* is issued.
C8_NotFoundTerminal ==
  [][HandlesStatus(404) =>
       /\ phase' = "done"
       /\ requests' = requests
       /\ pending' = <<>> /\ data' = <<>>
       /\ nFail' = nFail + 1 /\ nOk' = nOk
       /\ Val(lastCall').name = "HttpError"
       /\ Val(lastCall').statusCode = 404
       /\ Val(lastCall').description.tag = "notfound"
       /\ Val(lastCall').description.v[1] = options.method
       /\ Val(lastCall').description.v[4] = Some(options.path)]_vars

\* a 404 response with a Location header was rejected with HttpError 404
C8_Witness ==
  /\ op = "api" /\ phase = "done" /\ requests = 1 /\ nCalls = 1
  /\ response.statusCode = 404
  /\ ~IsNull(safeGetHeader(response, "location"))
  /\ Val(lastCall).name = "HttpError" /\ Val(lastCall).statusCode = 404

\* C9: every 204 response, whatever its headers, makes request() resolve with
\* no body (resolve() without a value: undefined, which == null); the response
\* stream is not read and no further request is issued.
C9_NoContentResolvesNull ==
  [][HandlesStatus(204) =>
       /\ phase' = "done"
       /\ requests' = requests
       /\ pending' = <<>> /\ data' = <<>>
       /\ nOk' = nOk + 1 /\ nFail' = nFail
       /\ Val(lastCall').ok
       /\ Val(lastCall').value.tag \in {"null", "undefined"}]_vars

\* a 204 response with a Location header was resolved without a body
C9_Witness ==
  /\ op = "api" /\ phase = "done" /\ requests = 1 /\ nCalls = 1
  /\ response.statusCode = 204
  /\ ~IsNull(safeGetHeader(response, "location"))
  /\ Val(lastCall).ok /\ nOk = 1

\* the end listener of handleResponse runs in this step
HandlesEnd == op = "api" /\ phase = "body" /\ phase' = "ended"

\* the Content-Type of the response contains "json" (of the content types the
\* servers send, "a/json" does and "t/p" does not)
DeclaresJson == response.headers["content-type"] = Single(CtJson)

\* the texts among the bodies the servers send that are JSON, and their values
IsJsonText(text) == text \in { <<"{","}">>, <<"[","1","]">> }
JsonValueOf(text) == IF text = <<"{","}">> THEN <<"object">> ELSE <<"array", <<"number">>>>

\* what the end listener does for a status < 400: the body, or null if empty
ResolvesWithBody ==
  /\ Val(lastCall').ok
  /\ Val(lastCall').value.tag = IF data = <<>> THEN "null" ELSE "text"
  /\ data # <<>> => Val(lastCall').value.v = data

\* C10, as claimed: when the body of a response with status >= 400 ends,
\* request() rejects with an HttpError of that status whose description is the
\* parsed JSON body if the Content-Type contains "json" and the raw text
\* otherwise, for every body; with status < 400 it resolves with the body, or
\* null when the body is empty.
C10_HttpErrorForEveryBody ==
  [][HandlesEnd =>
       IF response.statusCode >= 400
       THEN /\ Val(lastCall').name = "HttpError"
            /\ Val(lastCall').statusCode = response.statusCode
            /\ Val(lastCall').description.tag = IF DeclaresJson THEN "json" ELSE "text"
            /\ ~DeclaresJson => Val(lastCall').description.v = data
       ELSE ResolvesWithBody]_vars

\* C10, amended: as above when the Content-Type does not contain "json" or the
\* body is JSON text; when the Content-Type contains "json" and the body is not
\* JSON text (the empty body included), request() rejects with the SyntaxError
\* of JSON.parse instead of an HttpError.
C10_HttpErrorClassification ==
  [][HandlesEnd =>
       IF response.statusCode >= 400
       THEN IF DeclaresJson
            THEN IF IsJsonText(data)
                 THEN /\ Val(lastCall').name = "HttpError"
                      /\ Val(lastCall').statusCode = response.statusCode
                      /\ Val(lastCall').description.tag = "json"
                      /\ Val(lastCall').description.v = JsonValueOf(data)
                 ELSE Val(lastCall').name = "SyntaxError"
            ELSE /\ Val(lastCall').name = "HttpError"
                 /\ Val(lastCall').statusCode = response.statusCode
                 /\ Val(lastCall').description.tag = "text"
                 /\ Val(lastCall').description.v = data
       ELSE ResolvesWithBody]_vars

\* a 500 response declaring JSON whose body, delivered in two chunks, was
\* parsed into the description of the HttpError
C10_Witness ==
  /\ op = "api" /\ phase = "ended" /\ nCalls = 1
  /\ response.statusCode = 500
  /\ DeclaresJson
  /\ data = <<"[","1","]">>
  /\ Val(lastCall).name = "HttpError" /\ Val(lastCall).statusCode = 500
  /\ Val(lastCall).description.tag = "json"

\* C11: chunking invariance of DigestTransform.  When the transform has been
\* flushed and the digest of all the bytes written to it, in its algorithm and
\* encoding, is the expected string, the flush callback was called once, without
\* error, and actual is the expected string, however the bytes were split into
\* chunks (no chunk at all for the empty content included).
C11_ChunkingInvariance ==
  (/\ op = "digest" /\ phase = "ended"
   /\ DigestOf(streams[1].algorithm, Flatten(fed), streams[1].encoding)
        = Val(streams[1].expected))
    => /\ nOk = 1 /\ nFail = 0
       /\ streams[1].actual = streams[1].expected

\* bytes split into two chunks hashed to the expected digest
C11_Witness ==
  /\ op = "digest" /\ phase = "ended" /\ Len(fed) >= 2
  /\ DigestOf(streams[1].algorithm, Flatten(fed), streams[1].encoding)
       = Val(streams[1].expected)
  /\ nOk = 1 /\ streams[1].isValidateOnEnd

\* the kinds of the stages, in order
StageKinds(stages) == [i \in 1..Len(stages) |-> stages[i].kind]

\* the chain for the download options and the response: the progress stage only
\* with onProgress and a content-length header, then at most one digest stage,
\* sha512 when sha512 is supplied, sha256/hex when only sha2 is, then the file sink
IsChainFor(stages, dlOpts, resp) ==
  LET withProgress == dlOpts.onProgress /\ resp.headers["content-length"] # None
      withDigest == dlOpts.sha512 # None \/ dlOpts.sha2 # None
      d == Len(stages) - 1
  IN /\ StageKinds(stages) =
          (IF withProgress THEN <<"progress">> ELSE <<>>)
            \o (IF withDigest THEN <<"digest">> ELSE <<>>) \o <<"file">>
     /\ withDigest =>
          IF dlOpts.sha512 # None
          THEN /\ stages[d].algorithm = "sha512"
               /\ stages[d].expected = dlOpts.sha512
          ELSE /\ stages[d].algorithm = "sha256"
               /\ stages[d].encoding = "hex"
               /\ stages[d].expected = dlOpts.sha2

\* C12: stage chain shape.  Whenever the response callback of a download builds
\* the chain, the chain is response -> [progress, only with onProgress and a
\* content-length header] -> [at most one DigestTransform: sha512 whenever sha512
\* is supplied, sha256/hex when only sha2 is, none when neither is] -> file sink.
C12_StageChainShape ==
  [][\A resp \in DownloadResponses :
       (DownloadResponse(resp) /\ phase' = "pipes")
         => IsChainFor(streams', dlOptions, resp)]_vars

\* a chain of three stages was built for options with both digests
C12_Witness ==
  /\ op = "download" /\ phase = "pipes"
  /\ dlOptions.sha2 # None /\ dlOptions.sha512 # None
  /\ StageKinds(streams) = <<"progress", "digest", "file">>

\* the step invokes the download callback with the "Request timed out" error
SurfacesTimeout ==
  /\ nFail' = nFail + 1
  /\ lastCall' # None /\ Val(lastCall').name = "TimedOut"

\* C13: timeout watchdog of a download.  Whenever the idle watchdog of the
\* request in flight fires, the request is aborted and the callback is given
\* the "Request timed out" failure; once the cancellation token is signaled no
\* step gives the callback a timeout failure.
C13_TimeoutWatchdog ==
  [][op = "download" =>
       /\ (Timeout /\ ~cancelled) => (conn' = "aborted" /\ SurfacesTimeout)
       /\ cancelled => ~SurfacesTimeout]_vars

\* a stage of the chain has emitted an error
StageFailed == op = "download" /\ phase = "pipes" /\ ~piped

\* C14: teardown on stage failure.  In a download, when a stage of the chain
\* emits an error the request in flight is aborted, and from then on no byte is
\* taken from the response or written to the destination.
C14_TeardownOnStageFailure ==
  [][op = "download" =>
       /\ (~StageFailed /\ StageFailed') => conn' # "live"
       /\ StageFailed => UNCHANGED <<fed, written>>]_vars

\* C15: request options are immutable once issued.  A step taken while a
\* request is in flight, the call of prepareRedirectUrlOptions for its redirect
\* included, leaves every header mapping that exists, so the one of the issued
\* options with its Authorization entry, as it was.
C15_IssuedOptionsUnchanged ==
  [][phase = "waiting" => \A ref \in DOMAIN heap : heap'[ref] = heap[ref]]_vars

\* every DigestTransform of the chain has been flushed
StagesEnded ==
  \A i \in 1..Len(streams) : streams[i].kind = "digest" => streams[i].actual # None

\* C16: success only after the sink is closed.  A step invokes the download
\* callback without error only when the whole body went down the chain, every
\* stage has ended, the file sink has finished and its close operation completes
\* without error; a close operation that fails gives the callback its failure
\* and no success.
C16_SuccessAfterClose ==
  [][op = "download" =>
       /\ nOk' = nOk + 1 =>
            /\ sink = "closing" /\ sink' = "closed" /\ sinkCloses = 1
            /\ pending = <<>> /\ StagesEnded
            /\ written = Flatten(fed)
       /\ (sink = "closing" /\ sink' = "closeFailed") =>
            /\ nOk' = nOk /\ nFail' = nFail + 1
            /\ Val(lastCall').name = "CloseError"]_vars

\* a body of two chunks was written, its digest checked, the sink closed and
\* the callback invoked without error
C16_Witness ==
  /\ op = "download" /\ sink = "closed" /\ nOk = 1 /\ nFail = 0
  /\ Len(fed) = 2 /\ digests = 1

\* C17: cancellation reaches the active request.  Every request, the first and
\* every one reissued for a redirect, of request() and of a download, has
\* registered its abort with the token when it starts waiting for its response;
\* and signaling the token while the latest request is live aborts that request.
C17_CancelAbortsActiveHop ==
  [][/\ phase' = "waiting" => requests' \in registered'
     /\ (~cancelled /\ cancelled' /\ conn = "live") => conn' = "aborted"]_vars

\* the token was signaled after three followed redirects and the fourth request
\* was aborted
C17_Witness ==
  /\ cancelled /\ conn = "aborted" /\ followed = 3 /\ requests = 4
  /\ phase = "waiting"

\* the digest of the bytes written to the transform so far, in its algorithm
\* and encoding
WrittenDigest ==
  DigestOf(streams[1].algorithm, Flatten(fed), streams[1].encoding)

\* C18: validation lifecycle of DigestTransform.  validate() before the flush
\* throws ERR_STREAM_NOT_FINISHED; after the flush it throws
\* ERR_CHECKSUM_MISMATCH exactly when the digest of the bytes written differs
\* from the expected string.  The flush sets actual to that digest; it fails,
\* with ERR_CHECKSUM_MISMATCH, exactly when isValidateOnEnd is set and the digest
\* differs.  The digest is finalized once.
C18_ValidationLifecycle ==
  [][op = "digest" =>
       /\ Validate =>
            thrown' = Some(IF phase # "ended" THEN Some("ERR_STREAM_NOT_FINISHED")
                           ELSE IF WrittenDigest # Val(streams[1].expected)
                                THEN Some("ERR_CHECKSUM_MISMATCH")
                                ELSE None)
       /\ (phase # "ended" /\ phase' = "ended") =>
            /\ streams[1].actual = None
            /\ streams'[1].actual = Some(WrittenDigest)
            /\ digests' = 1
            /\ IF streams[1].isValidateOnEnd /\ WrittenDigest # Val(streams[1].expected)
               THEN /\ nOk' = 0 /\ nFail' = 1
                    /\ Val(lastCall').name = "ERR_CHECKSUM_MISMATCH"
               ELSE nOk' = 1 /\ nFail' = 0
       /\ phase = "ended" => UNCHANGED <<streams, digests, callVars>>]_vars

\* a transform with isValidateOnEnd false was flushed without error on bytes
\* of another digest, and validate() then threw the mismatch
C18_Witness ==
  /\ op = "digest" /\ phase = "ended" /\ fed # <<>>
  /\ ~streams[1].isValidateOnEnd
  /\ streams[1].actual # streams[1].expected
  /\ nOk = 1 /\ nFail = 0
  /\ thrown = Some(Some("ERR_CHECKSUM_MISMATCH"))

IsPrefix(p, q) == Len(p) <= Len(q) /\ SubSeq(q, 1, Len(p)) = p

\* C19: pass-through ordering.  The chunks pushed by the DigestTransform, and
\* by the whole chain of transform stages of a download, are the chunks written
\* to it, unaltered and in the same order; the bytes written to the file sink
\* of a download are the bytes taken from the response in that order, all of
\* them as long as the sink has not failed.
C19_PassThroughOrdering ==
  /\ emitted = fed
  /\ op = "download" =>
       /\ IsPrefix(written, Flatten(fed))
       /\ sink # "destroyed" => written = Flatten(fed)

\* a body of two chunks went through a chain with a DigestTransform into the
\* file sink, which was closed
C19_Witness ==
  /\ op = "download" /\ sink = "closed"
  /\ DigestIndex(streams) # 0
  /\ Len(fed) = 2 /\ fed[1] # fed[2]
  /\ written = Flatten(fed)

\* an event of the latest request: its watchdog fires, or it emits error or
\* aborted
LatestRequestEvent ==
  \/ Timeout
  \/ \E name \in {"TransportError", "AbortedByServer"} : TransportEvent(name)

\* C20: hop independence and watchdog disarm.  In a download no event of a
\* request that was superseded by a followed redirect invokes the callback,
\* and once the callback has been invoked no watchdog, error or aborted event
\* of the latest request invokes it again.
C20_LateEventsDisarmed ==
  [][op = "download" =>
       /\ late' # late => UNCHANGED callVars
       /\ (nCalls >= 1 /\ LatestRequestEvent) => UNCHANGED callVars]_vars

====
